---------------------------- MODULE Spec2Model ----------------------------
(***************************************************************************)
(* A model of the Gozleme Finder proxy server (src/server.js).             *)
(*                                                                         *)
(* The server is a set of independent request handlers.  Each group of     *)
(* handlers is modelled by its own specification over its own variables;   *)
(* the variables of the other groups stay at their idle values:            *)
(*                                                                         *)
(*   SpecReview  the review-keyword filter of POST /api/places-by-review   *)
(*   SpecList    the result list of POST /api/places-by-review             *)
(*   SpecPlaces  the request body built by POST /api/places                *)
(*   SpecProxy   the five proxy handlers and their outbound call           *)
(*   SpecGeo     the label reducer of POST /api/geocode-reverse            *)
(*   SpecCache   the cache file and the three endpoints that use it        *)
(*   SpecToggle  toggle requests that arrive together                      *)
(*   SpecDedup   the cache builder's cross-batch name deduplication        *)
(*                                                                         *)
(* Text is a sequence of characters, each character a one-token string.    *)
(* Characters outside ASCII are named: "o_uml" is U+00F6, "O_uml" U+00D6,  *)
(* "e_acute" U+00E9, "E_acute" U+00C9, "I_dot" U+0130, "i_dotless" U+0131  *)
(* and "dot_above" the combining mark U+0307.                              *)
(***************************************************************************)
EXTENDS Integers, Sequences, FiniteSets

VARIABLES
    place,          \* SpecReview: the upstream place whose reviews are filtered
    verdict,        \* SpecReview: what the filter decided for it
    upstream,       \* SpecList: the body searchNearby answered with
    filtered,       \* SpecList: the places sent back to the caller
    placesReq,      \* SpecPlaces: the body of a request to POST /api/places
    placesBody,     \* SpecPlaces: the body sent upstream
    keys,           \* SpecProxy: which secrets the environment sets
    req,            \* SpecProxy: the state of each inbound proxy request
    geoData,        \* SpecGeo: the body the geocoding API answered with
    geoLabel,       \* SpecGeo: the body of the response to the caller
    cacheFile,      \* SpecCache, SpecToggle: cache.json
    lastResponse,   \* SpecCache: the response the server sent last
    initialFile,    \* SpecToggle: cache.json as it was at the start
    toggles,        \* SpecToggle: the state of each toggle request
    seenKeys,       \* SpecDedup: the running set of normalized name keys
    allSpots,       \* SpecDedup: the names of the records kept so far
    proposed        \* SpecDedup: the names proposed so far, in order

reviewVars == <<place, verdict, upstream, filtered>>

placesVars == <<placesReq, placesBody>>

proxyVars == <<keys, req>>

geoVars == <<geoData, geoLabel>>

cacheVars == <<cacheFile, lastResponse, initialFile, toggles>>

dedupVars == <<seenKeys, allSpots, proposed>>

vars == <<place, verdict, upstream, filtered, placesReq, placesBody, keys, req, geoData, geoLabel,
          cacheFile, lastResponse, initialFile, toggles, seenKeys,
          allSpots, proposed>>

(***************************************************************************)
(* Text helpers.                                                           *)
(***************************************************************************)

\* String.prototype.includes: t occurs in s as a contiguous run.
Includes(s, t) ==
    \E i \in 0..(Len(s) - Len(t)) : SubSeq(s, i + 1, i + Len(t)) = t

\* The lower-case mapping of one character, as String.prototype.toLowerCase
\* maps it (locale-insensitive): U+0130 becomes "i" followed by U+0307.
LowerChar(c) ==
    CASE c = "G" -> <<"g">>
      [] c = "O" -> <<"o">>
      [] c = "Z" -> <<"z">>
      [] c = "L" -> <<"l">>
      [] c = "E" -> <<"e">>
      [] c = "M" -> <<"m">>
      [] c = "I" -> <<"i">>
      [] c = "X" -> <<"x">>
      [] c = "O_uml" -> <<"o_uml">>
      [] c = "E_acute" -> <<"e_acute">>
      [] c = "I_dot" -> <<"i", "dot_above">>
      [] OTHER -> <<c>>

RECURSIVE toLowerCase(_)
toLowerCase(s) ==
    IF s = <<>> THEN <<>> ELSE LowerChar(Head(s)) \o toLowerCase(Tail(s))

(***************************************************************************)
(* POST /api/places-by-review: the review-keyword relevance filter.        *)
(***************************************************************************)

GOZLEME_TERMS ==
    << <<"g", "o", "z", "l", "e", "m", "e">>,
       <<"g", "o_uml", "z", "l", "e", "m", "e">>,
       <<"g", "o", "z", "l", "e", "m", "e_acute">>,
       <<"g", "o", "z", "l", "e", "m", "i">>,
       <<"g", "o_uml", "z", "l", "e", "m", "i">> >>

\* A faulty variant of mentionsGozleme: the text is compared as written.
mentionsGozlemeCaseSensitive(text) ==
    IF text = <<>> THEN FALSE
    ELSE \E k \in DOMAIN GOZLEME_TERMS : Includes(text, GOZLEME_TERMS[k])

mentionsGozleme(text) ==
    IF text = <<>> THEN FALSE
    ELSE LET lower == toLowerCase(text)
         IN  \E k \in DOMAIN GOZLEME_TERMS : Includes(lower, GOZLEME_TERMS[k])

\* r.text?.text || r.originalText?.text || '': an absent field and an empty
\* string are both falsy.
ReviewText(r) ==
    IF r.hasText /\ r.text # <<>> THEN r.text
    ELSE IF r.hasOriginal /\ r.originalText # <<>> THEN r.originalText
    ELSE <<>>

\* place.reviews || []
ReviewsOf(p) == IF p.hasReviews THEN p.reviews ELSE <<>>

\* reviews.find(r => mentionsGozleme(...)): the index of the first review
\* that matches, 0 when none does (find returns undefined).
FindMatching(reviews) ==
    LET hits == {i \in DOMAIN reviews : mentionsGozleme(ReviewText(reviews[i]))}
    IN  IF hits = {} THEN 0
        ELSE CHOOSE i \in hits : \A j \in hits : i <= j

\* The body of the loop for one place whose key was not seen before:
\* skipped without a matching review, pushed with matchedReview otherwise.
FilterPlace(p) ==
    LET reviews == ReviewsOf(p)
        m == FindMatching(reviews)
    IN  IF m = 0
        THEN [done |-> TRUE, relevant |-> FALSE, matchedReview |-> <<>>]
        ELSE [done |-> TRUE, relevant |-> TRUE,
              matchedReview |-> ReviewText(reviews[m])]

\* The review texts the model draws from: every variant in lower case, in
\* upper case and inside a longer text, and near misses of the variants.
MaxReviews == 2

Words ==
    { <<>>,
      <<"x">>,
      <<"g", "o", "z", "l", "e", "m", "e">>,
      <<"g", "o_uml", "z", "l", "e", "m", "e">>,
      <<"g", "o", "z", "l", "e", "m", "e_acute">>,
      <<"g", "o", "z", "l", "e", "m", "i">>,
      <<"g", "o_uml", "z", "l", "e", "m", "i">>,
      <<"G", "O", "Z", "L", "E", "M", "E">>,
      <<"G", "O_uml", "Z", "L", "E", "M", "E">>,
      <<"G", "O", "Z", "L", "E", "M", "E_acute">>,
      <<"G", "o", "z", "l", "e", "m", "I">>,
      <<"G", "O_uml", "Z", "L", "E", "M", "I_dot">>,
      <<"x", " ", "G", "o_uml", "z", "l", "e", "m", "e", " ", "x">>,
      <<"x", "g", "o", "z", "l", "e", "m", "e", "x">>,
      <<"g", "o", "z", "l", "e", "m">>,
      <<"g", "o", "z", " ", "l", "e", "m", "e">>,
      <<"g", "o_uml", "z", "l", "e", "m", "e_acute">>,
      <<"g", "o", "z", "l", "e", "m", "i_dotless">>,
      <<"o", "z", "l", "e", "m", "e">> }

OriginalWords ==
    { <<>>, <<"G", "O_uml", "Z", "L", "E", "M", "E">>, <<"X", "x">> }

Reviews ==
    [hasText : {TRUE}, text : Words,
     hasOriginal : {TRUE}, originalText : OriginalWords]
    \cup [hasText : {FALSE}, text : {<<>>},
          hasOriginal : BOOLEAN, originalText : {<<>>}]
    \cup [hasText : {FALSE}, text : {<<>>},
          hasOriginal : {TRUE}, originalText : OriginalWords]

ReviewLists ==
    UNION {[1..n -> Reviews] : n \in 0..MaxReviews}

Places ==
    [hasReviews : {TRUE}, reviews : ReviewLists]
    \cup [hasReviews : {FALSE}, reviews : {<<>>}]

NoVerdict == [done |-> FALSE, relevant |-> FALSE, matchedReview |-> <<>>]

\* The (display name, formatted address) key of the loop:
\* (place.displayName?.text || '') + '|' + (place.formattedAddress || '').
\* An absent field and an empty string both give the empty text.
KeyOfPlace(p) == p.displayName \o <<"|">> \o p.formattedAddress

\* { ...place, matchedReview }
WithMatchedReview(p, text) ==
    [displayName |-> p.displayName, formattedAddress |-> p.formattedAddress,
     hasReviews |-> p.hasReviews, reviews |-> p.reviews,
     matchedReview |-> text]

\* seen.has(key)
SeenHas(seen, key) == key \in seen

\* The loop over data.places from place i on, with the keys seen and the
\* places pushed so far: a place whose key was seen is skipped, its key is
\* recorded otherwise, and then the place is pushed only if a review
\* matches.
RECURSIVE FilterLoop(_, _, _, _)
FilterLoop(places, i, seen, out) ==
    IF i > Len(places) THEN out
    ELSE LET p == places[i]
             key == KeyOfPlace(p)
             v == FilterPlace(p)
         IN  IF SeenHas(seen, key) THEN FilterLoop(places, i + 1, seen, out)
             ELSE IF ~v.relevant
                  THEN FilterLoop(places, i + 1, seen \cup {key}, out)
                  ELSE FilterLoop(places, i + 1, seen \cup {key},
                           Append(out, WithMatchedReview(p, v.matchedReview)))

\* data.places || []
PlacesOf(data) == IF data.hasPlaces THEN data.places ELSE <<>>

\* res.json({ places: filtered })
FilteredPlaces(data) == FilterLoop(PlacesOf(data), 1, {}, <<>>)

\* The upstream bodies the model draws from.  Names and addresses include
\* the separator character; review lists include none, a miss, a match and
\* a miss followed by a match.
MaxListed == 2

DisplayNames == { <<>>, <<"A">>, <<"A", "|">> }

FormattedAddresses == { <<>>, <<"1">>, <<"|", "1">> }

PlainReview ==
    [hasText |-> TRUE, text |-> <<"x">>,
     hasOriginal |-> FALSE, originalText |-> <<>>]

MatchingReview ==
    [hasText |-> TRUE, text |-> <<"g", "o", "z", "l", "e", "m", "e">>,
     hasOriginal |-> FALSE, originalText |-> <<>>]

OriginalOnlyReview ==
    [hasText |-> FALSE, text |-> <<>>,
     hasOriginal |-> TRUE,
     originalText |-> <<"G", "O_uml", "Z", "L", "E", "M", "E">>]

ListedReviews ==
    { <<>>, <<PlainReview>>, <<MatchingReview>>,
      <<PlainReview, OriginalOnlyReview>> }

ListedPlaces ==
    [displayName : DisplayNames, formattedAddress : FormattedAddresses,
     hasReviews : {TRUE}, reviews : ListedReviews]
    \cup [displayName : DisplayNames, formattedAddress : FormattedAddresses,
          hasReviews : {FALSE}, reviews : {<<>>}]

UpstreamBodies ==
    [hasPlaces : {TRUE},
     places : UNION {[1..n -> ListedPlaces] : n \in 0..MaxListed}]
    \cup [hasPlaces : {FALSE}, places : {<<>>}]

NoUpstream == [hasPlaces |-> FALSE, places |-> <<>>]

NotSent == [sent |-> FALSE, places |-> <<>>]

ListIdle == upstream = NoUpstream /\ filtered = NotSent

ListInit == upstream \in UpstreamBodies /\ filtered = NotSent

ReviewIdle ==
    /\ place = [hasReviews |-> FALSE, reviews |-> <<>>]
    /\ verdict = NoVerdict
    /\ ListIdle

ReviewInit == place \in Places /\ verdict = NoVerdict /\ ListIdle

ApplyFilter ==
    /\ ~verdict.done
    /\ verdict' = FilterPlace(place)
    /\ UNCHANGED <<place, upstream, filtered, placesVars, proxyVars, geoVars,
                   cacheVars, dedupVars>>

\* The handler from the upstream answer on, for an answer with a success
\* status: the loop runs and the filtered list is sent.
SendFiltered ==
    /\ ~filtered.sent
    /\ filtered' = [sent |-> TRUE, places |-> FilteredPlaces(upstream)]
    /\ UNCHANGED <<place, verdict, upstream, placesVars, proxyVars, geoVars,
                   cacheVars, dedupVars>>

(***************************************************************************)
(* POST /api/places: the body sent upstream.                               *)
(*                                                                         *)
(* The caller's maxResults is any JSON value.  A number is written         *)
(* mant * 10^exp, plus one half when half is set (exp is then 0), negated  *)
(* when neg is set; a string is its characters.                            *)
(***************************************************************************)

MaxResultCap == 20

DefaultMaxResults == 20

MaxMant == 25

MaxExp == 21

DigitChars == <<"0", "1", "2", "3", "4", "5", "6", "7", "8", "9">>

IsDigit(c) == \E d \in DOMAIN DigitChars : DigitChars[d] = c

DigitValue(c) == (CHOOSE d \in DOMAIN DigitChars : DigitChars[d] = c) - 1

\* The decimal digits of a natural number.
RECURSIVE Digits(_)
Digits(n) ==
    IF n < 10 THEN <<DigitChars[n + 1]>>
    ELSE Digits(n \div 10) \o <<DigitChars[(n % 10) + 1]>>

Zeros(n) == [i \in 1..n |-> "0"]

\* mant * 10^exp with the trailing zeros of mant moved into the exponent.
RECURSIVE Normalised(_, _)
Normalised(mant, exp) ==
    IF mant # 0 /\ mant % 10 = 0 THEN Normalised(mant \div 10, exp + 1)
    ELSE <<mant, exp>>

\* Number::toString (radix 10): the shortest digits that identify the
\* number, written in full while the integer part has at most 21 digits
\* and in exponent form (d.ddde+n) above that.
NumberToString(v) ==
    IF v.mant = 0 /\ ~v.half THEN <<"0">>
    ELSE (IF v.neg THEN <<"-">> ELSE <<>>) \o
         (IF v.half THEN Digits(v.mant) \o <<".", "5">>
          ELSE LET n == Normalised(v.mant, v.exp)
                   d == Digits(n[1])
                   pointPos == Len(d) + n[2]
               IN  IF pointPos <= 21 THEN d \o Zeros(n[2])
                   ELSE <<Head(d)>>
                        \o (IF Len(d) > 1 THEN <<".">> \o Tail(d) ELSE <<>>)
                        \o <<"e", "+">> \o Digits(pointPos - 1))

\* ToString of the value handed to parseInt.
ToString(v) ==
    CASE v.kind = "num" -> NumberToString(v)
      [] v.kind = "str" -> v.chars
      [] v.kind = "null" -> <<"n", "u", "l", "l">>

RECURSIVE TrimStart(_)
TrimStart(s) ==
    IF s # <<>> /\ Head(s) = " " THEN TrimStart(Tail(s)) ELSE s

RECURSIVE DigitPrefix(_)
DigitPrefix(s) ==
    IF s # <<>> /\ IsDigit(Head(s)) THEN <<Head(s)>> \o DigitPrefix(Tail(s))
    ELSE <<>>

RECURSIVE StripLeadingZeros(_)
StripLeadingZeros(s) ==
    IF s # <<>> /\ Head(s) = "0" THEN StripLeadingZeros(Tail(s)) ELSE s

RECURSIVE ValueOf(_)
ValueOf(digits) ==
    IF digits = <<>> THEN 0
    ELSE 10 * ValueOf(SubSeq(digits, 1, Len(digits) - 1))
         + DigitValue(digits[Len(digits)])

\* parseInt(string, 10): leading white space is skipped, a sign is read,
\* then the longest run of decimal digits; NaN when that run is empty.
\* The magnitude is kept as its digits without leading zeros.
parseInt(s) ==
    LET t == TrimStart(s)
        neg == t # <<>> /\ Head(t) = "-"
        u == IF t # <<>> /\ Head(t) \in {"-", "+"} THEN Tail(t) ELSE t
        d == DigitPrefix(u)
    IN  [nan |-> d = <<>>, neg |-> neg, digits |-> StripLeadingZeros(d)]

\* Math.min(parseInt(maxResults, 10) || 20, 20), maxResults = 20 by default
\* when the body has none.  NaN and zero are falsy; a magnitude of more
\* than two digits is above 20 without being evaluated.
MaxResultCount(maxResults) ==
    LET p == IF maxResults.kind = "undefined"
             THEN parseInt(Digits(DefaultMaxResults))
             ELSE parseInt(ToString(maxResults))
    IN  IF p.nan \/ p.digits = <<>> THEN MaxResultCap
        ELSE IF p.neg THEN 0 - ValueOf(p.digits)
        ELSE IF Len(p.digits) > 2 THEN MaxResultCap
        ELSE IF ValueOf(p.digits) < MaxResultCap THEN ValueOf(p.digits)
        ELSE MaxResultCap

JsValue(kind, neg, mant, exp, half, chars) ==
    [kind |-> kind, neg |-> neg, mant |-> mant, exp |-> exp, half |-> half,
     chars |-> chars]

MaxResultsStrings ==
    { <<>>, <<"2", "5">>, <<" ", "2", "5">>, <<"2", "1", "a">>, <<"a">>,
      <<"-", "5">>, <<"+", "3", "0">>, <<"0">>, <<"0", "1", "9">>,
      <<"2", "0">>, <<"1", "e", "3">>, <<"7">> }

\* Negative numbers are drawn without an exponent: their parsed value is
\* sent as it is and stays a small integer.
MaxResultsValues ==
    {JsValue("undefined", FALSE, 0, 0, FALSE, <<>>),
     JsValue("null", FALSE, 0, 0, FALSE, <<>>)}
    \cup {JsValue("num", FALSE, m, e, FALSE, <<>>) : m \in 0..MaxMant, e \in 0..MaxExp}
    \cup {JsValue("num", n, m, 0, h, <<>>) : n \in BOOLEAN, m \in 0..MaxMant, h \in BOOLEAN}
    \cup {JsValue("str", FALSE, 0, 0, FALSE, s) : s \in MaxResultsStrings}

PlacesRequests ==
    [keySet : BOOLEAN, hasTextQuery : BOOLEAN, maxResults : MaxResultsValues]

NoRequest == [keySet |-> FALSE, hasTextQuery |-> FALSE,
              maxResults |-> JsValue("undefined", FALSE, 0, 0, FALSE, <<>>)]

NoBody == [state |-> "none", maxResultCount |-> 0]

PlacesIdle == placesReq = NoRequest /\ placesBody = NoBody

PlacesInit == placesReq \in PlacesRequests /\ placesBody = NoBody

\* The handler up to the outbound call: 400 without a key or a textQuery,
\* the body with its maxResultCount otherwise.
PlacesBuildBody ==
    /\ placesBody.state = "none"
    /\ placesBody' =
          IF ~placesReq.keySet \/ ~placesReq.hasTextQuery
          THEN [state |-> "rejected", maxResultCount |-> 0]
          ELSE [state |-> "sent",
                maxResultCount |-> MaxResultCount(placesReq.maxResults)]
    /\ UNCHANGED <<placesReq, reviewVars, proxyVars, geoVars, cacheVars, dedupVars>>

(***************************************************************************)
(* The proxy handlers: POST /api/places, /api/places-by-review,            *)
(* /api/geocode, /api/geocode-reverse and /api/claude.                     *)
(*                                                                         *)
(* A handler runs in two steps of the event loop: from the request to the  *)
(* outbound fetch (or to a 400), and from the upstream's answer to the     *)
(* response.  Other requests' steps may run between the two.               *)
(***************************************************************************)

MaxRequests == 2

Requests == 1..MaxRequests

Endpoints == {"places", "placesByReview", "geocode", "geocodeReverse", "claude"}

\* GOOGLE_PLACES_KEY, GOOGLE_MAPS_KEY (the places key when unset) and
\* ANTHROPIC_KEY, read once at startup.
Environments == [placesKey : BOOLEAN, mapsKey : BOOLEAN, anthropicKey : BOOLEAN]

GOOGLE_PLACES_KEY == keys.placesKey

GOOGLE_MAPS_KEY == keys.mapsKey \/ GOOGLE_PLACES_KEY

ANTHROPIC_KEY == keys.anthropicKey

\* The key each handler tests first.
ApiKeySet(ep) ==
    CASE ep \in {"places", "placesByReview"} -> GOOGLE_PLACES_KEY
      [] ep \in {"geocode", "geocodeReverse"} -> GOOGLE_MAPS_KEY
      [] ep = "claude" -> ANTHROPIC_KEY

\* The fields of the body a handler requires; a field is set when the
\* handler's own test accepts it (!textQuery, !address, lat == null).
Inputs(ep) ==
    CASE ep = "places" ->
            [textQuery : BOOLEAN, address : {FALSE}, lat : {FALSE}, lng : {FALSE}]
      [] ep = "geocode" ->
            [textQuery : {FALSE}, address : BOOLEAN, lat : {FALSE}, lng : {FALSE}]
      [] ep = "geocodeReverse" ->
            [textQuery : {FALSE}, address : {FALSE}, lat : BOOLEAN, lng : BOOLEAN]
      [] OTHER ->
            [textQuery : {FALSE}, address : {FALSE}, lat : {FALSE}, lng : {FALSE}]

\* A faulty variant of InputMissing: /api/geocode-reverse tests lat only.
InputMissingLatOnly(ep, input) ==
    CASE ep = "places" -> ~input.textQuery
      [] ep = "geocode" -> ~input.address
      [] ep = "geocodeReverse" -> ~input.lat
      [] OTHER -> FALSE

InputMissing(ep, input) ==
    CASE ep = "places" -> ~input.textQuery
      [] ep = "geocode" -> ~input.address
      [] ep = "geocodeReverse" -> ~input.lat \/ ~input.lng
      [] OTHER -> FALSE

\* What the outbound call comes to: the fetch rejects, or it resolves with
\* an HTTP status and a body that response.json() reads (a JSON object) or
\* rejects.  The geocoding body carries its own status field and a results
\* list.
Outcomes(ep) ==
    [kind : {"rejected"}, status : {0}, json : {FALSE},
     apiStatusOk : {FALSE}, hasResults : {FALSE}]
    \cup [kind : {"response"}, status : {200, 403, 500}, json : {FALSE},
          apiStatusOk : {FALSE}, hasResults : {FALSE}]
    \cup [kind : {"response"}, status : {200, 403, 500}, json : {TRUE},
          apiStatusOk : IF ep \in {"geocode", "geocodeReverse"} THEN BOOLEAN ELSE {FALSE},
          hasResults : IF ep \in {"geocode", "geocodeReverse"} THEN BOOLEAN ELSE {FALSE}]

\* response.ok
Ok(o) == o.status >= 200 /\ o.status <= 299

Response(status, body, why) == [status |-> status, body |-> body, why |-> why]

NoResponse == Response(0, "none", "none")

NoInput == [textQuery |-> FALSE, address |-> FALSE, lat |-> FALSE, lng |-> FALSE]

NoOutcome == [kind |-> "none", status |-> 0, json |-> FALSE,
              apiStatusOk |-> FALSE, hasResults |-> FALSE]

\* A faulty variant of Respond: /api/claude answers 502 for every failure upstream.
RespondGatewayClaude(ep, o) ==
    IF o.kind = "rejected" \/ ~o.json
    THEN Response(502, "error", "proxy failed")
    ELSE CASE ep \in {"places", "placesByReview"} ->
                IF ~Ok(o) THEN Response(o.status, "error", "upstream error")
                ELSE Response(200, "data", "ok")
           [] ep \in {"geocode", "geocodeReverse"} ->
                IF ~o.apiStatusOk \/ ~o.hasResults
                THEN Response(200, "null result", "ok")
                ELSE Response(200, "data", "ok")
           [] ep = "claude" ->
                IF ~Ok(o) THEN Response(502, "error", "upstream error")
                ELSE Response(o.status, "upstream body", "forwarded")

\* The handler from the upstream's answer on.  A rejected fetch or an
\* unreadable body lands in the catch block: 502 and {error}.  A body that
\* was read is answered per endpoint: the places handlers answer a status
\* that is not ok with the upstream's status and {error}; the geocoding
\* handlers look at the body's status field only; /api/claude forwards the
\* upstream's status and body.
Respond(ep, o) ==
    IF o.kind = "rejected" \/ ~o.json
    THEN Response(502, "error", "proxy failed")
    ELSE CASE ep \in {"places", "placesByReview"} ->
                IF ~Ok(o) THEN Response(o.status, "error", "upstream error")
                ELSE Response(200, "data", "ok")
           [] ep \in {"geocode", "geocodeReverse"} ->
                IF ~o.apiStatusOk \/ ~o.hasResults
                THEN Response(200, "null result", "ok")
                ELSE Response(200, "data", "ok")
           [] ep = "claude" ->
                Response(o.status, "upstream body", "forwarded")

IdleRequest ==
    [pc |-> "idle", endpoint |-> "none", input |-> NoInput, calls |-> 0,
     call |-> "none", outcome |-> NoOutcome, response |-> NoResponse]

ProxyIdle ==
    /\ keys = [placesKey |-> FALSE, mapsKey |-> FALSE, anthropicKey |-> FALSE]
    /\ req = [r \in Requests |-> IdleRequest]

ProxyInit ==
    /\ keys \in Environments
    /\ req = [r \in Requests |-> IdleRequest]

\* A request arrives and its handler runs to its first return or to the
\* outbound fetch.
Receive(r, ep, input) ==
    /\ req[r].pc = "idle"
    /\ req' = [req EXCEPT ![r] =
          IF ~ApiKeySet(ep)
          THEN [@ EXCEPT !.pc = "done", !.endpoint = ep, !.input = input,
                         !.response = Response(400, "error", "key not set")]
          ELSE IF InputMissing(ep, input)
          THEN [@ EXCEPT !.pc = "done", !.endpoint = ep, !.input = input,
                         !.response = Response(400, "error", "input required")]
          ELSE [@ EXCEPT !.pc = "fetching", !.endpoint = ep, !.input = input,
                         !.calls = @ + 1, !.call = "in flight"]]
    /\ UNCHANGED <<keys, reviewVars, placesVars, geoVars, cacheVars, dedupVars>>

\* The upstream answers (or the transport fails) and the handler resumes.
UpstreamAnswers(r, o) ==
    /\ req[r].pc = "fetching"
    /\ req' = [req EXCEPT ![r] =
          [@ EXCEPT !.pc = "done", !.outcome = o,
                    !.call = IF o.kind = "rejected" THEN "failed" ELSE "returned",
                    !.response = Respond(req[r].endpoint, o)]]
    /\ UNCHANGED <<keys, reviewVars, placesVars, geoVars, cacheVars, dedupVars>>

(***************************************************************************)
(* POST /api/geocode-reverse: the label reducer.                           *)
(*                                                                         *)
(* The upstream body is {status, results}; the handler reads the first     *)
(* result's address_components and formatted_address.  A name that is the  *)
(* empty string stands for an empty or missing name: both are falsy.       *)
(***************************************************************************)

MaxComponents == 2

TypeSets ==
    { {}, {"postal_code"}, {"neighborhood"}, {"sublocality_level_1"},
      {"locality"}, {"postal_code", "locality"} }

Components ==
    [types : TypeSets, short_name : {"", "E8", "N16"},
     long_name : {"", "Hackney", "London"}]

ComponentLists == UNION {[1..n -> Components] : n \in 0..MaxComponents}

GeoResults ==
    [hasComponents : {TRUE}, address_components : ComponentLists,
     hasFormatted : {TRUE}, formatted_address : {"1 Mare St, London E8"}]
    \cup [hasComponents : {TRUE}, address_components : ComponentLists,
          hasFormatted : {FALSE}, formatted_address : {""}]
    \cup [hasComponents : {FALSE}, address_components : {<<>>},
          hasFormatted : BOOLEAN, formatted_address : {""}]

GeoBodies ==
    [status : {"OK"}, results : {<<g>> : g \in GeoResults}]
    \cup [status : {"OK", "ZERO_RESULTS", "REQUEST_DENIED"}, results : {<<>>}]
    \cup [status : {"REQUEST_DENIED"},
          results : {<< [hasComponents |-> FALSE, address_components |-> <<>>,
                         hasFormatted |-> FALSE, formatted_address |-> ""] >>}]

\* components.find(c => pred(c)): the index of the first component that
\* satisfies pred, 0 when none does.
FindComponent(components, wanted) ==
    LET hits == {i \in DOMAIN components : components[i].types \cap wanted # {}}
    IN  IF hits = {} THEN 0
        ELSE CHOOSE i \in hits : \A j \in hits : i <= j

Label(hasLabel, label) == [state |-> "sent", isNull |-> FALSE,
                           hasLabel |-> hasLabel, label |-> label]

NullLabel == [state |-> "sent", isNull |-> TRUE, hasLabel |-> TRUE, label |-> ""]

NoLabel == [state |-> "none", isNull |-> FALSE, hasLabel |-> FALSE, label |-> ""]

\* A faulty variant of ReduceLabel: the locality is preferred to the postal code.
ReduceLabelLocalityFirst(data) ==
    IF data.status # "OK" \/ Len(data.results) = 0 THEN NullLabel
    ELSE LET result == data.results[1]
             components == IF result.hasComponents
                           THEN result.address_components ELSE <<>>
             postal == FindComponent(components, {"postal_code"})
             neighbourhood ==
                 FindComponent(components, {"neighborhood", "sublocality_level_1"})
             locality == FindComponent(components, {"locality"})
         IN  IF locality # 0 /\ components[locality].long_name # ""
             THEN Label(TRUE, components[locality].long_name)
             ELSE IF postal # 0 /\ components[postal].short_name # ""
             THEN Label(TRUE, components[postal].short_name)
             ELSE IF neighbourhood # 0 /\ components[neighbourhood].long_name # ""
             THEN Label(TRUE, components[neighbourhood].long_name)
             ELSE Label(result.hasFormatted, result.formatted_address)

\* The handler from the body on: {label: null} unless the status is OK and
\* there is a result; otherwise the first truthy value of the chain
\* postal.short_name || neighbourhood.long_name || locality.long_name ||
\* result.formatted_address (an undefined label leaves the field out).
ReduceLabel(data) ==
    IF data.status # "OK" \/ Len(data.results) = 0 THEN NullLabel
    ELSE LET result == data.results[1]
             components == IF result.hasComponents
                           THEN result.address_components ELSE <<>>
             postal == FindComponent(components, {"postal_code"})
             neighbourhood ==
                 FindComponent(components, {"neighborhood", "sublocality_level_1"})
             locality == FindComponent(components, {"locality"})
         IN  IF postal # 0 /\ components[postal].short_name # ""
             THEN Label(TRUE, components[postal].short_name)
             ELSE IF neighbourhood # 0 /\ components[neighbourhood].long_name # ""
             THEN Label(TRUE, components[neighbourhood].long_name)
             ELSE IF locality # 0 /\ components[locality].long_name # ""
             THEN Label(TRUE, components[locality].long_name)
             ELSE Label(result.hasFormatted, result.formatted_address)

GeoIdle ==
    /\ geoData = [status |-> "ZERO_RESULTS", results |-> <<>>]
    /\ geoLabel = NoLabel

GeoInit == geoData \in GeoBodies /\ geoLabel = NoLabel

ReverseGeocodeRespond ==
    /\ geoLabel.state = "none"
    /\ geoLabel' = ReduceLabel(geoData)
    /\ UNCHANGED <<geoData, reviewVars, placesVars, proxyVars, cacheVars, dedupVars>>

(***************************************************************************)
(* cache.json and its endpoints: GET /api/cached-spots,                    *)
(* GET /api/admin/spots and POST /api/admin/toggle.                        *)
(*                                                                         *)
(* The file is absent, unreadable (readFileSync throws something other     *)
(* than ENOENT), corrupt (JSON.parse throws) or holds JSON: null, or an    *)
(* object with optional spots, builtAt and totalSpots.  A spot's hidden    *)
(* flag is unset until the admin toggles it.  The cache builder keeps      *)
(* names unique, so the spot at position i is named after i.               *)
(* A file that holds JSON is writable or not: writeFileSync replaces the   *)
(* whole of a writable file and throws, touching nothing, otherwise.       *)
(***************************************************************************)

MaxSpots == 2

SpotName(i) == <<"s">> \o Digits(i)

HiddenValues ==
    {[hasHidden |-> FALSE, hidden |-> FALSE],
     [hasHidden |-> TRUE, hidden |-> FALSE],
     [hasHidden |-> TRUE, hidden |-> TRUE]}

SpotLists ==
    UNION { { [i \in 1..n |-> [name |-> SpotName(i),
                               hasHidden |-> h[i].hasHidden,
                               hidden |-> h[i].hidden]] :
              h \in [1..n -> HiddenValues] } : n \in 0..MaxSpots }

File(state, writable, isNull, hasSpots, spots, builtAt, hasTotalSpots, totalSpots) ==
    [state |-> state, writable |-> writable, isNull |-> isNull,
     hasSpots |-> hasSpots, spots |-> spots, builtAt |-> builtAt,
     hasTotalSpots |-> hasTotalSpots, totalSpots |-> totalSpots]

AbsentFile == File("absent", FALSE, FALSE, FALSE, <<>>, "", FALSE, 0)

Files ==
    { AbsentFile,
      File("unreadable", FALSE, FALSE, FALSE, <<>>, "", FALSE, 0),
      File("corrupt", TRUE, FALSE, FALSE, <<>>, "", FALSE, 0),
      File("json", TRUE, TRUE, FALSE, <<>>, "", FALSE, 0),
      File("json", TRUE, FALSE, FALSE, <<>>, "2026-01-01", FALSE, 0) }
    \cup {File("json", w, FALSE, TRUE, l, "2026-01-01", TRUE, Len(l)) :
              w \in BOOLEAN, l \in SpotLists}
    \cup {File("json", TRUE, FALSE, TRUE, l, "", FALSE, 0) : l \in SpotLists}

\* fs.readFileSync followed by JSON.parse: the error thrown, if any.
ReadError(file) ==
    CASE file.state = "absent" -> "ENOENT"
      [] file.state = "unreadable" -> "EACCES"
      [] file.state = "corrupt" -> "SyntaxError"
      [] OTHER -> "none"

\* !s.hidden
NotHidden(spot) == ~(spot.hasHidden /\ spot.hidden)

\* A faulty variant of Filter: every spot is served.
FilterNothing(spots) == spots

RECURSIVE Filter(_)
\* spots.filter(s => !s.hidden)
Filter(spots) ==
    IF spots = <<>> THEN <<>>
    ELSE (IF NotHidden(Head(spots)) THEN <<Head(spots)>> ELSE <<>>)
         \o Filter(Tail(spots))

\* The body index of a toggle request: a number (an integer, or an integer
\* plus one half), or something that is not a number.
Index(kind, value) == [kind |-> kind, value |-> value]

NoIndex == Index("none", 0)

Indexes ==
    {Index("num", v) : v \in -1..MaxSpots}
    \cup {Index("half", v) : v \in -1..0}
    \cup {Index("string", 0), Index("undefined", 0)}

Sent(endpoint, status, body, spots, builtAt, totalSpots, index, hidden, name) ==
    [endpoint |-> endpoint, status |-> status, body |-> body, spots |-> spots,
     builtAt |-> builtAt, totalSpots |-> totalSpots, index |-> index,
     hidden |-> hidden, name |-> name]

\* res.status(status).json({error: ...})
ErrorSent(endpoint, status, index) ==
    Sent(endpoint, status, "error", <<>>, "", 0, index, FALSE, <<>>)

NothingSent == Sent("none", 0, "none", <<>>, "", 0, NoIndex, FALSE, <<>>)

\* data.builtAt || null: "null" stands for JSON's null.
BuiltAtOrNull(file) == IF file.builtAt = "" THEN "null" ELSE file.builtAt

\* data.spots || []
SpotsOrEmpty(file) == IF file.hasSpots THEN file.spots ELSE <<>>

\* A faulty variant of CachedSpots: an absent file is reported as not found.
CachedSpotsAbsentIs404(file) ==
    IF ReadError(file) = "ENOENT" THEN ErrorSent("cachedSpots", 404, NoIndex)
    ELSE IF ReadError(file) # "none" \/ file.isNull
    THEN ErrorSent("cachedSpots", 500, NoIndex)
    ELSE Sent("cachedSpots", 200, "spots", Filter(SpotsOrEmpty(file)),
              BuiltAtOrNull(file), 0, NoIndex, FALSE, <<>>)

\* GET /api/cached-spots.  Reading data.spots of null throws a TypeError,
\* which the catch block answers like any error that is not ENOENT.
CachedSpots(file) ==
    IF ReadError(file) = "ENOENT"
    THEN Sent("cachedSpots", 200, "spots", <<>>, "null", 0, NoIndex, FALSE, <<>>)
    ELSE IF ReadError(file) # "none" \/ file.isNull
    THEN ErrorSent("cachedSpots", 500, NoIndex)
    ELSE Sent("cachedSpots", 200, "spots", Filter(SpotsOrEmpty(file)),
              BuiltAtOrNull(file), 0, NoIndex, FALSE, <<>>)

\* GET /api/admin/spots.
AdminSpots(file) ==
    IF ReadError(file) = "ENOENT"
    THEN Sent("adminSpots", 200, "spots", <<>>, "null", 0, NoIndex, FALSE, <<>>)
    ELSE IF ReadError(file) # "none" \/ file.isNull
    THEN ErrorSent("adminSpots", 500, NoIndex)
    ELSE Sent("adminSpots", 200, "spots", SpotsOrEmpty(file), BuiltAtOrNull(file),
              IF file.hasTotalSpots THEN file.totalSpots ELSE 0,
              NoIndex, FALSE, <<>>)

\* A faulty variant of Negated: the spot is hidden whatever its flag was.
AlwaysHidden(spot) == [spot EXCEPT !.hasHidden = TRUE, !.hidden = TRUE]

\* data.spots[index].hidden = !data.spots[index].hidden
Negated(spot) == [spot EXCEPT !.hasHidden = TRUE, !.hidden = NotHidden(spot)]

\* A faulty variant of IndexOutside: the last position is taken to be outside.
IndexOutsideOffByOne(file, index) ==
    \/ ~file.hasSpots
    \/ index.value < 0
    \/ index.value >= Len(file.spots) - 1

\* !data.spots || index < 0 || index >= data.spots.length, for an index
\* that is a number: value + 1/2 is below 0 or at least the length exactly
\* when value is.
IndexOutside(file, index) ==
    \/ ~file.hasSpots
    \/ index.value < 0
    \/ index.value >= Len(file.spots)

\* POST /api/admin/toggle, the whole handler: the file it leaves and the
\* response it sends.  An index that is no integer finds no spot, and
\* reading hidden of undefined throws a TypeError; writeFileSync throws
\* when the file is not writable.
ToggleHandler(file, index) ==
    IF index.kind \notin {"num", "half"}
    THEN [file |-> file, sent |-> ErrorSent("toggle", 400, index)]
    ELSE IF ReadError(file) = "ENOENT"
    THEN [file |-> file, sent |-> ErrorSent("toggle", 404, index)]
    ELSE IF ReadError(file) # "none" \/ file.isNull
    THEN [file |-> file, sent |-> ErrorSent("toggle", 500, index)]
    ELSE IF IndexOutside(file, index)
    THEN [file |-> file, sent |-> ErrorSent("toggle", 404, index)]
    ELSE IF index.kind = "half" \/ ~file.writable
    THEN [file |-> file, sent |-> ErrorSent("toggle", 500, index)]
    ELSE LET i == index.value + 1
             spot == Negated(file.spots[i])
         IN  [file |-> [file EXCEPT !.spots[i] = spot],
              sent |-> Sent("toggle", 200, "toggled", <<>>, "", 0, index,
                            spot.hidden, spot.name)]

NoToggle == [pc |-> "idle", index |-> NoIndex, status |-> 0]

MaxToggles == 2

ToggleRequests == 1..MaxToggles

CacheIdle ==
    /\ cacheFile = AbsentFile
    /\ lastResponse = NothingSent
    /\ initialFile = AbsentFile
    /\ toggles = [r \in ToggleRequests |-> NoToggle]

\* The endpoints one request at a time.
CacheInit ==
    /\ cacheFile \in Files
    /\ lastResponse = NothingSent
    /\ initialFile = cacheFile
    /\ toggles = [r \in ToggleRequests |-> NoToggle]

GetCachedSpots ==
    /\ lastResponse' = CachedSpots(cacheFile)
    /\ UNCHANGED <<cacheFile, initialFile, toggles>>
    /\ UNCHANGED <<reviewVars, placesVars, proxyVars, geoVars, dedupVars>>

GetAdminSpots ==
    /\ lastResponse' = AdminSpots(cacheFile)
    /\ UNCHANGED <<cacheFile, initialFile, toggles>>
    /\ UNCHANGED <<reviewVars, placesVars, proxyVars, geoVars, dedupVars>>

PostToggle(index) ==
    /\ cacheFile' = ToggleHandler(cacheFile, index).file
    /\ lastResponse' = ToggleHandler(cacheFile, index).sent
    /\ UNCHANGED <<initialFile, toggles>>
    /\ UNCHANGED <<reviewVars, placesVars, proxyVars, geoVars, dedupVars>>

\* Toggle requests that arrive together: each waits in the event loop
\* until its handler runs, and the handler, which calls readFileSync and
\* writeFileSync and awaits nothing, runs from start to end in one step.
ToggleArrives(r, index) ==
    /\ toggles[r].pc = "idle"
    /\ toggles' = [toggles EXCEPT ![r] = [pc |-> "pending", index |-> index,
                                          status |-> 0]]
    /\ UNCHANGED <<cacheFile, lastResponse, initialFile>>
    /\ UNCHANGED <<reviewVars, placesVars, proxyVars, geoVars, dedupVars>>

ToggleRuns(r) ==
    /\ toggles[r].pc = "pending"
    /\ LET done == ToggleHandler(cacheFile, toggles[r].index)
       IN  /\ cacheFile' = done.file
           /\ toggles' = [toggles EXCEPT ![r].pc = "done",
                                         ![r].status = done.sent.status]
    /\ UNCHANGED <<lastResponse, initialFile>>
    /\ UNCHANGED <<reviewVars, placesVars, proxyVars, geoVars, dedupVars>>

(***************************************************************************)
(* The cache builder's cross-batch deduplication (cache-builder.js).       *)
(*                                                                         *)
(* Names are proposed one at a time; a name whose normalized key equals a  *)
(* key of the running set, contains one or is contained in one is a        *)
(* duplicate and is discarded, any other is kept and its key added.        *)
(***************************************************************************)

MaxNameLen == 2

MaxProposals == 2

NameChars == {"a", "b", "A", "-"}

Names == UNION {[1..n -> NameChars] : n \in 0..MaxNameLen}

\* Lower-cased, every character that is not a letter or a digit removed.
RECURSIVE Stripped(_)
Stripped(s) ==
    IF s = <<>> THEN <<>>
    ELSE (IF Head(s) \in {"a", "b"} THEN <<Head(s)>> ELSE <<>>)
         \o Stripped(Tail(s))

NameLower(s) == [i \in DOMAIN s |-> IF s[i] = "A" THEN "a" ELSE s[i]]

normalize(name) == Stripped(NameLower(name))

\* A faulty variant of isDuplicate: only an equal key is a duplicate.
isDuplicateExact(key, seen) == key \in seen

isDuplicate(key, seen) ==
    \E k \in seen : k = key \/ Includes(k, key) \/ Includes(key, k)

DedupIdle == seenKeys = {} /\ allSpots = <<>> /\ proposed = <<>>

Propose(name) ==
    /\ Len(proposed) < MaxProposals
    /\ proposed' = Append(proposed, name)
    /\ IF isDuplicate(normalize(name), seenKeys)
       THEN UNCHANGED <<seenKeys, allSpots>>
       ELSE /\ seenKeys' = seenKeys \cup {normalize(name)}
            /\ allSpots' = Append(allSpots, name)
    /\ UNCHANGED <<reviewVars, placesVars, proxyVars, geoVars, cacheVars>>

(***************************************************************************)
(* The specifications.                                                     *)
(***************************************************************************)

InitReview == ReviewInit /\ PlacesIdle /\ ProxyIdle /\ GeoIdle /\ CacheIdle /\ DedupIdle

NextReview == ApplyFilter

SpecReview == InitReview /\ [][NextReview]_vars

InitList ==
    /\ place = [hasReviews |-> FALSE, reviews |-> <<>>]
    /\ verdict = NoVerdict
    /\ ListInit
    /\ PlacesIdle /\ ProxyIdle /\ GeoIdle /\ CacheIdle /\ DedupIdle

NextList == SendFiltered

SpecList == InitList /\ [][NextList]_vars

InitPlaces == ReviewIdle /\ PlacesInit /\ ProxyIdle /\ GeoIdle /\ CacheIdle /\ DedupIdle

NextPlaces == PlacesBuildBody

SpecPlaces == InitPlaces /\ [][NextPlaces]_vars

InitProxy == ReviewIdle /\ PlacesIdle /\ ProxyInit /\ GeoIdle /\ CacheIdle /\ DedupIdle

NextProxy ==
    \/ \E r \in Requests : \E ep \in Endpoints : \E input \in Inputs(ep) :
          Receive(r, ep, input)
    \/ \E r \in Requests : \E o \in Outcomes(req[r].endpoint) :
          UpstreamAnswers(r, o)

SpecProxy == InitProxy /\ [][NextProxy]_vars

InitGeo == ReviewIdle /\ PlacesIdle /\ ProxyIdle /\ GeoInit /\ CacheIdle /\ DedupIdle

NextGeo == ReverseGeocodeRespond

SpecGeo == InitGeo /\ [][NextGeo]_vars

InitCache == ReviewIdle /\ PlacesIdle /\ ProxyIdle /\ GeoIdle /\ CacheInit /\ DedupIdle

NextCache ==
    \/ GetCachedSpots
    \/ GetAdminSpots
    \/ \E index \in Indexes : PostToggle(index)

SpecCache == InitCache /\ [][NextCache]_vars

NextToggle ==
    \/ \E r \in ToggleRequests : \E index \in Indexes : ToggleArrives(r, index)
    \/ \E r \in ToggleRequests : ToggleRuns(r)

SpecToggle == InitCache /\ [][NextToggle]_vars

InitDedup == ReviewIdle /\ PlacesIdle /\ ProxyIdle /\ GeoIdle /\ CacheIdle /\ DedupIdle

NextDedup == \E name \in Names : Propose(name)

SpecDedup == InitDedup /\ [][NextDedup]_vars

(***************************************************************************)
(* C1: the place is judged relevant exactly when some review's text,       *)
(* lower-cased, contains one of the five variants; the matchedReview is    *)
(* the raw text of the first such review in list order; an empty or        *)
(* absent review list is judged not relevant.                              *)
(***************************************************************************)

Variants ==
    { <<"g", "o", "z", "l", "e", "m", "e">>,
      <<"g", "o_uml", "z", "l", "e", "m", "e">>,
      <<"g", "o", "z", "l", "e", "m", "e_acute">>,
      <<"g", "o", "z", "l", "e", "m", "i">>,
      <<"g", "o_uml", "z", "l", "e", "m", "i">> }

HasVariant(text) == \E v \in Variants : Includes(toLowerCase(text), v)

MatchingIndexes ==
    {i \in DOMAIN ReviewsOf(place) : HasVariant(ReviewText(ReviewsOf(place)[i]))}

C1_RelevanceFilter ==
    verdict.done =>
        /\ verdict.relevant <=> MatchingIndexes # {}
        /\ verdict.relevant =>
              \E i \in MatchingIndexes :
                  /\ \A j \in MatchingIndexes : i <= j
                  /\ verdict.matchedReview = ReviewText(ReviewsOf(place)[i])
        /\ (~place.hasReviews \/ place.reviews = <<>>) => ~verdict.relevant

\* A place whose first review misses and whose second review mentions the
\* term in upper case: judged relevant, the second text surfaced.
C1_Witness ==
    /\ verdict.done /\ verdict.relevant
    /\ Len(place.reviews) = 2
    /\ ~HasVariant(ReviewText(place.reviews[1]))
    /\ verdict.matchedReview = place.reviews[2].text
    /\ verdict.matchedReview # toLowerCase(verdict.matchedReview)

(***************************************************************************)
(* C2: a maxResults above 20 is sent upstream as exactly 20, and whatever  *)
(* the caller supplies the count sent never exceeds 20.                    *)
(***************************************************************************)

\* The caller's maxResults is a number, or a string of decimal digits,
\* whose value is above 20.
AboveTwenty(v) ==
    \/ /\ v.kind = "num" /\ ~v.neg /\ v.mant > 0
       /\ \/ v.exp >= 2
          \/ v.exp = 1 /\ v.mant > 2
          \/ v.exp = 0 /\ (v.mant > 20 \/ (v.mant = 20 /\ v.half))
    \/ /\ v.kind = "str" /\ v.chars # <<>>
       /\ \A i \in DOMAIN v.chars : IsDigit(v.chars[i])
       /\ LET d == StripLeadingZeros(v.chars)
          IN  Len(d) > 2 \/ (Len(d) = 2 /\ ValueOf(d) > 20)

C2_CappedAtTwenty ==
    placesBody.state = "sent" =>
        /\ AboveTwenty(placesReq.maxResults) => placesBody.maxResultCount = 20
        /\ placesBody.maxResultCount <= 20

(***************************************************************************)
(* C3 as stated: every upstream failure (a status that is not a success,   *)
(* or a transport failure) is answered with status 502 and a body that is  *)
(* a single error string, on each of the five proxy endpoints.             *)
(***************************************************************************)

UpstreamFailed(q) ==
    q.outcome.kind = "rejected" \/ (q.outcome.kind = "response" /\ ~Ok(q.outcome))

C3_EveryFailureIs502 ==
    \A r \in Requests :
        (req[r].pc = "done" /\ UpstreamFailed(req[r])) =>
            req[r].response.status = 502 /\ req[r].response.body = "error"

(***************************************************************************)
(* C3 as amended: a transport failure (the fetch rejects, or the body      *)
(* cannot be read as JSON) is answered with 502 and {error} on each of the *)
(* five endpoints.  An upstream status that is not a success, with a JSON  *)
(* object as body, is not mapped to 502: the two places endpoints answer   *)
(* {error} under the upstream's own status, /api/claude forwards the       *)
(* upstream's status and body, and the two geocoding endpoints ignore the  *)
(* HTTP status and answer 200 with null fields when the body's status      *)
(* field is not OK or it has no results.                                   *)
(***************************************************************************)

C3_FailureMapping ==
    \A r \in Requests :
        LET q == req[r]
            o == q.outcome
        IN  (q.pc = "done" /\ o.kind # "none") =>
              /\ (o.kind = "rejected" \/ ~o.json) =>
                    q.response.status = 502 /\ q.response.body = "error"
              /\ (o.kind = "response" /\ o.json /\ ~Ok(o)) =>
                    CASE q.endpoint \in {"places", "placesByReview"} ->
                            q.response.status = o.status /\ q.response.body = "error"
                      [] q.endpoint = "claude" ->
                            q.response.status = o.status
                            /\ q.response.body = "upstream body"
                      [] q.endpoint \in {"geocode", "geocodeReverse"} ->
                            (~o.apiStatusOk \/ ~o.hasResults) =>
                                /\ q.response.status = 200
                                /\ q.response.body = "null result"

\* Both kinds of failure have been answered: a rejected fetch by 502, and
\* a 403 from the upstream by a 403 on /api/claude.
C3_Witness ==
    \E r1, r2 \in Requests :
        /\ req[r1].pc = "done" /\ req[r1].outcome.kind = "rejected"
        /\ req[r1].response.status = 502
        /\ req[r2].pc = "done" /\ req[r2].endpoint = "claude"
        /\ req[r2].outcome.kind = "response" /\ req[r2].outcome.json
        /\ req[r2].outcome.status = 403 /\ req[r2].response.status = 403

(***************************************************************************)
(* C7: a proxy request issues at most one outbound call, is answered only  *)
(* once that call has returned or failed, and is answered without any      *)
(* outbound call when its secret key or a required input is missing.       *)
(***************************************************************************)

SecretMissing(q) ==
    \/ q.endpoint \in {"places", "placesByReview"} /\ ~keys.placesKey
    \/ q.endpoint \in {"geocode", "geocodeReverse"} /\ ~keys.mapsKey /\ ~keys.placesKey
    \/ q.endpoint = "claude" /\ ~keys.anthropicKey

RequiredInputMissing(q) ==
    \/ q.endpoint = "places" /\ ~q.input.textQuery
    \/ q.endpoint = "geocode" /\ ~q.input.address
    \/ q.endpoint = "geocodeReverse" /\ (~q.input.lat \/ ~q.input.lng)

C7_OneCallThenAnswer ==
    \A r \in Requests :
        LET q == req[r]
        IN  /\ q.calls <= 1
            /\ q.response # NoResponse =>
                  /\ q.call # "in flight"
                  /\ q.calls = 1 => q.call \in {"returned", "failed"}
            /\ (q.endpoint # "none" /\ (SecretMissing(q) \/ RequiredInputMissing(q))) =>
                  /\ q.calls = 0 /\ q.call = "none"
                  /\ q.response.status = 400 /\ q.response.body = "error"
            /\ (q.endpoint # "none" /\ ~SecretMissing(q) /\ ~RequiredInputMissing(q)) =>
                  q.calls = 1

\* One request was turned away for a missing input with no call made while
\* another has been answered after its call returned.
C7_Witness ==
    \E r1, r2 \in Requests :
        /\ req[r1].pc = "done" /\ RequiredInputMissing(req[r1])
        /\ ~SecretMissing(req[r1]) /\ req[r1].calls = 0
        /\ req[r2].pc = "done" /\ req[r2].calls = 1 /\ req[r2].call = "returned"

(***************************************************************************)
(* C4: for a successful upstream answer the label is the postal_code       *)
(* component's short name if present, else the neighbourhood or            *)
(* sub-locality component's long name if present, else the locality        *)
(* component's long name if present, else the formatted address; with a    *)
(* postal code and a locality among the components the label is the        *)
(* postal code's short name.  A name is present when the first component   *)
(* of its type carries a name that is not empty.                           *)
(***************************************************************************)

GeoSuccessful == geoData.status = "OK" /\ Len(geoData.results) > 0

GeoComponents ==
    IF GeoSuccessful /\ geoData.results[1].hasComponents
    THEN geoData.results[1].address_components ELSE <<>>

IsFirstOfType(i, wanted) ==
    /\ i \in DOMAIN GeoComponents
    /\ GeoComponents[i].types \cap wanted # {}
    /\ \A j \in 1..(i - 1) : GeoComponents[j].types \cap wanted = {}

PostalCode ==
    {GeoComponents[i].short_name : i \in {k \in DOMAIN GeoComponents :
        IsFirstOfType(k, {"postal_code"})}} \ {""}

Neighbourhood ==
    {GeoComponents[i].long_name : i \in {k \in DOMAIN GeoComponents :
        IsFirstOfType(k, {"neighborhood", "sublocality_level_1"})}} \ {""}

Locality ==
    {GeoComponents[i].long_name : i \in {k \in DOMAIN GeoComponents :
        IsFirstOfType(k, {"locality"})}} \ {""}

C4_LabelPreference ==
    (geoLabel.state = "sent" /\ GeoSuccessful) =>
        /\ ~geoLabel.isNull
        /\ PostalCode # {} => geoLabel.hasLabel /\ geoLabel.label \in PostalCode
        /\ (PostalCode = {} /\ Neighbourhood # {}) =>
              geoLabel.hasLabel /\ geoLabel.label \in Neighbourhood
        /\ (PostalCode = {} /\ Neighbourhood = {} /\ Locality # {}) =>
              geoLabel.hasLabel /\ geoLabel.label \in Locality
        /\ (PostalCode = {} /\ Neighbourhood = {} /\ Locality = {}) =>
              /\ geoLabel.hasLabel = geoData.results[1].hasFormatted
              /\ geoLabel.label = geoData.results[1].formatted_address
        /\ (PostalCode # {} /\ Locality # {}) =>
              geoLabel.label \in PostalCode /\ geoLabel.label \notin Locality

\* A locality listed before the postal code: the label is the postal code.
C4_Witness ==
    /\ geoLabel.state = "sent" /\ GeoSuccessful
    /\ Len(GeoComponents) = 2
    /\ GeoComponents[1].types = {"locality"} /\ GeoComponents[1].long_name = "London"
    /\ GeoComponents[2].types = {"postal_code"}
    /\ geoLabel.label = "E8"

(***************************************************************************)
(* C5: with cache.json absent, GET /api/cached-spots answers with success  *)
(* status and {spots: [], builtAt: null}, never with an error.             *)
(***************************************************************************)

C5_AbsentCacheIsEmpty ==
    (lastResponse.endpoint = "cachedSpots" /\ cacheFile.state = "absent") =>
        /\ lastResponse.status = 200
        /\ lastResponse.body = "spots"
        /\ lastResponse.spots = <<>>
        /\ lastResponse.builtAt = "null"

C5_Witness ==
    /\ lastResponse.endpoint = "cachedSpots"
    /\ cacheFile.state = "absent"
    /\ lastResponse.status = 200

(***************************************************************************)
(* C6: two names whose normalized keys are equal, or one a substring of    *)
(* the other, proposed in either order: the first is kept and its key      *)
(* joins the running set, the second is discarded.                         *)
(***************************************************************************)

IsAlphanumeric(c) == c \in {"a", "b"}

KeyOf(name) ==
    SelectSeq([i \in DOMAIN name |-> IF name[i] = "A" THEN "a" ELSE name[i]],
              IsAlphanumeric)

Related(k1, k2) == k1 = k2 \/ Includes(k1, k2) \/ Includes(k2, k1)

C6_FirstSeenWins ==
    (Len(proposed) >= 2 /\ Related(KeyOf(proposed[1]), KeyOf(proposed[2]))) =>
        /\ Len(allSpots) >= 1 /\ allSpots[1] = proposed[1]
        /\ KeyOf(proposed[1]) \in seenKeys
        /\ KeyOf(proposed[2]) \in seenKeys => KeyOf(proposed[2]) = KeyOf(proposed[1])
        /\ \A j \in 2..Len(allSpots) : KeyOf(allSpots[j]) # KeyOf(proposed[2])

\* "A-" then "ab": the key a is contained in the key ab, and only "A-" is kept.
C6_Witness ==
    /\ proposed = << <<"A", "-">>, <<"a", "b">> >>
    /\ allSpots = << <<"A", "-">> >>
    /\ seenKeys = {<<"a">>}

(***************************************************************************)
(* C8: after any sequence of toggles, GET /api/cached-spots returns        *)
(* exactly the spots whose hidden flag is not set, in file order, and      *)
(* GET /api/admin/spots returns every spot of the file, in file order.     *)
(***************************************************************************)

FlagSet(spot) == spot.hasHidden /\ spot.hidden

FileSpots == IF cacheFile.hasSpots THEN cacheFile.spots ELSE <<>>

Shown == {i \in DOMAIN FileSpots : ~FlagSet(FileSpots[i])}

C8_HiddenNeverServed ==
    /\ (lastResponse.endpoint = "cachedSpots" /\ lastResponse.body = "spots") =>
          /\ Len(lastResponse.spots) = Cardinality(Shown)
          /\ \A i \in Shown :
                lastResponse.spots[Cardinality({j \in Shown : j <= i})] = FileSpots[i]
          /\ \A k \in DOMAIN lastResponse.spots : ~FlagSet(lastResponse.spots[k])
    /\ (lastResponse.endpoint = "adminSpots" /\ lastResponse.body = "spots") =>
          lastResponse.spots = FileSpots

\* A toggle has hidden the first of two spots and the public list has
\* been read since: it holds the second spot only.
C8_Witness ==
    /\ lastResponse.endpoint = "cachedSpots"
    /\ cacheFile # initialFile
    /\ Len(FileSpots) = 2
    /\ FlagSet(FileSpots[1])
    /\ lastResponse.spots = <<FileSpots[2]>>

(***************************************************************************)
(* C9: a toggle with an index i, 0 <= i < number of spots, negates the     *)
(* hidden flag of the spot at position i, reports the new value and        *)
(* leaves the rest of the file as it was; a toggle answered with an error  *)
(* (400 for an index that is no number, 404 for an index outside the list  *)
(* or an absent file, 500 otherwise) leaves the file unchanged.  The index *)
(* i is a position of the list, an integer, and the file one the server    *)
(* can read and write.                                                     *)
(***************************************************************************)

ToggleFlipped(old, new, i) ==
    /\ new.state = old.state /\ new.isNull = old.isNull
    /\ new.writable = old.writable
    /\ new.hasSpots = old.hasSpots
    /\ new.builtAt = old.builtAt
    /\ new.hasTotalSpots = old.hasTotalSpots /\ new.totalSpots = old.totalSpots
    /\ Len(new.spots) = Len(old.spots)
    /\ \A j \in DOMAIN old.spots : j # i => new.spots[j] = old.spots[j]
    /\ new.spots[i].name = old.spots[i].name
    /\ FlagSet(new.spots[i]) = ~FlagSet(old.spots[i])

Readable(file) == file.state = "json" /\ ~file.isNull

C9_ToggleStep ==
    LET sent == lastResponse'
        i == sent.index.value
        isNumber == sent.index.kind \in {"num", "half"}
        outside == ~cacheFile.hasSpots \/ i < 0 \/ i >= Len(cacheFile.spots)
    IN  sent.endpoint = "toggle" =>
          /\ sent.status \in {200, 400, 404, 500}
          /\ sent.status = 400 <=> ~isNumber
          /\ sent.status = 404 <=>
                /\ isNumber
                /\ \/ cacheFile.state = "absent"
                   \/ Readable(cacheFile) /\ outside
          /\ sent.status = 200 <=>
                /\ sent.index.kind = "num" /\ Readable(cacheFile) /\ ~outside
                /\ cacheFile.writable
          /\ sent.status = 200 =>
                /\ ToggleFlipped(cacheFile, cacheFile', i + 1)
                /\ sent.body = "toggled"
                /\ sent.hidden = FlagSet(cacheFile'.spots[i + 1])
                /\ sent.name = cacheFile.spots[i + 1].name
          /\ sent.status # 200 => sent.body = "error" /\ cacheFile' = cacheFile

C9_ToggleFrame == [][C9_ToggleStep]_vars

\* The second of two spots was toggled twice: it is shown again, and the
\* last toggle reported so.
C9_Witness ==
    /\ lastResponse.endpoint = "toggle" /\ lastResponse.status = 200
    /\ lastResponse.index = Index("num", 1)
    /\ ~lastResponse.hidden
    /\ Len(cacheFile.spots) = 2
    /\ cacheFile.spots[2].hasHidden /\ ~initialFile.spots[2].hasHidden

(***************************************************************************)
(* C10: whatever the order in which concurrently arriving toggle requests  *)
(* are handled, no update is lost: each spot's flag is its initial value   *)
(* negated once per successful toggle of its index.                        *)
(***************************************************************************)

Successes(i) ==
    {r \in ToggleRequests :
        /\ toggles[r].pc = "done" /\ toggles[r].status = 200
        /\ toggles[r].index = Index("num", i - 1)}

C10_NoLostUpdate ==
    /\ Len(cacheFile.spots) = Len(initialFile.spots)
    /\ \A i \in DOMAIN cacheFile.spots :
          FlagSet(cacheFile.spots[i]) =
              IF Cardinality(Successes(i)) % 2 = 0
              THEN FlagSet(initialFile.spots[i])
              ELSE ~FlagSet(initialFile.spots[i])
    /\ \A r \in ToggleRequests :
          (toggles[r].pc = "done" /\ toggles[r].status = 200) =>
              toggles[r].index.kind = "num"
              /\ toggles[r].index.value + 1 \in DOMAIN cacheFile.spots

\* Two toggles of the same spot were both handled: the flag is back to
\* what it was.
C10_Witness ==
    /\ \A r \in 1..2 : toggles[r].pc = "done" /\ toggles[r].status = 200
    /\ toggles[1].index = toggles[2].index
    /\ toggles[1].index = Index("num", 0)
    /\ initialFile.spots[1].hasHidden /\ initialFile.spots[1].hidden
    /\ cacheFile.spots[1].hidden

(***************************************************************************)
(* C11: the places sent back are an order-preserving subsequence of the    *)
(* upstream places, no two of them share a (display name, formatted        *)
(* address) key, each carries a matchedReview that mentions a variant, and *)
(* every upstream place with a review mentioning a variant is represented  *)
(* by a sent place with the same key.                                      *)
(***************************************************************************)

PairKey(p) == <<p.displayName, p.formattedAddress>>

WithoutMatchedReview(p) ==
    [displayName |-> p.displayName, formattedAddress |-> p.formattedAddress,
     hasReviews |-> p.hasReviews, reviews |-> p.reviews]

UpstreamPlaces == IF upstream.hasPlaces THEN upstream.places ELSE <<>>

IsSubsequence(out, in) ==
    \E f \in [DOMAIN out -> DOMAIN in] :
        /\ \A j, k \in DOMAIN out : j < k => f[j] < f[k]
        /\ \A j \in DOMAIN out : WithoutMatchedReview(out[j]) = in[f[j]]

HasMatchingReview(p) ==
    \E i \in DOMAIN ReviewsOf(p) : HasVariant(ReviewText(ReviewsOf(p)[i]))

C11_Subsequence == IsSubsequence(filtered.places, UpstreamPlaces)

C11_DistinctKeys ==
    \A j, k \in DOMAIN filtered.places :
        j # k => PairKey(filtered.places[j]) # PairKey(filtered.places[k])

C11_MatchedReviewMentions ==
    \A j \in DOMAIN filtered.places :
        HasVariant(filtered.places[j].matchedReview)

C11_EveryMatchRepresented ==
    \A i \in DOMAIN UpstreamPlaces :
        HasMatchingReview(UpstreamPlaces[i]) =>
            \E j \in DOMAIN filtered.places :
                PairKey(filtered.places[j]) = PairKey(UpstreamPlaces[i])

C11_ResultList ==
    filtered.sent =>
        /\ C11_Subsequence
        /\ C11_DistinctKeys
        /\ C11_MatchedReviewMentions
        /\ C11_EveryMatchRepresented

\* C11 without its last part, which is what the loop guarantees together
\* with: an upstream place with a matching review is sent unless an earlier
\* upstream place has the same key text.
C11_FirstOfKeyDecides ==
    filtered.sent =>
        /\ C11_Subsequence
        /\ C11_DistinctKeys
        /\ C11_MatchedReviewMentions
        /\ \A i \in DOMAIN UpstreamPlaces :
              (/\ HasMatchingReview(UpstreamPlaces[i])
               /\ \A h \in 1..(i - 1) :
                     KeyOfPlace(UpstreamPlaces[h]) # KeyOfPlace(UpstreamPlaces[i]))
                  => \E j \in DOMAIN filtered.places :
                        WithoutMatchedReview(filtered.places[j]) = UpstreamPlaces[i]

\* Two upstream places with one key, the first without a matching review
\* and the second with one: nothing is sent for the key.
C11_Witness ==
    /\ filtered.sent
    /\ Len(UpstreamPlaces) = 2
    /\ PairKey(UpstreamPlaces[1]) = PairKey(UpstreamPlaces[2])
    /\ ~HasMatchingReview(UpstreamPlaces[1])
    /\ HasMatchingReview(UpstreamPlaces[2])
    /\ filtered.places = <<>>

=============================================================================
